---- MODULE Spec2Model ----
(***************************************************************************)
(* edgehttpbin: the request handler registered with fsthttp.ServeFunc in   *)
(* main.go.  A request path is a sequence of tokens: "/" separators, route *)
(* words ("status", "cache", ...) and the single characters of a parameter *)
(* segment.  A header or body value is a sequence of tokens as well.       *)
(***************************************************************************)
EXTENDS Integers, Sequences, FiniteSets, TLC

VARIABLES
    req,        \* the request being served
    pc,         \* where the handler stands: a route's name, "idle" or "done"
    w,          \* the response writer of the request
    ran,        \* the routes whose block has run for this request, in order
    picked,     \* what the random source returned for this request (-1: no draw)
    cancelled,  \* whether ctx.Done() is closed
    timer,      \* the channel of time.After: "none", "running" or "fired"
    first,      \* which of the two signals came first: "none", "cancel", "timer"
    chain       \* whether the request was issued by following a redirect

vars == <<req, pc, w, ran, picked, cancelled, timer, first, chain>>

(***************************************************************************)
(* Bounds of the model.                                                    *)
(***************************************************************************)
\* Width in bits of Go's int (and of the int64 of strconv.ParseInt), scaled
\* down from 64; wide enough to hold the 100*1024 byte cap.
IntBits == 18
\* Longest parameter segment enumerated exhaustively over ParamChars.
MaxParamLen == 2
\* rand.Float64() is drawn from {0, 1/DrawSteps, ..., (DrawSteps-1)/DrawSteps}.
DrawSteps == 4

IntMax == 2^(IntBits - 1) - 1
IntMin == -(2^(IntBits - 1))

\* Two's complement wrap-around of Go's int arithmetic.
WrapInt(x) == ((x - IntMin) % (2^IntBits)) + IntMin

(***************************************************************************)
(* strconv and strings.                                                    *)
(***************************************************************************)
Digits == <<"0", "1", "2", "3", "4", "5", "6", "7", "8", "9">>

IsDigit(c) == \E i \in 1..10 : Digits[i] = c

DigitVal(c) == (CHOOSE i \in 1..10 : Digits[i] = c) - 1

\* The digit loop of strconv.ParseUint: accumulate, give up past the cutoff.
RECURSIVE ParseDigits(_, _)
ParseDigits(s, acc) ==
    IF s = <<>> THEN acc
    ELSE IF acc > IntMax + 1 THEN acc
    ELSE ParseDigits(Tail(s), acc * 10 + DigitVal(Head(s)))

\* strconv.Atoi / strconv.ParseInt(s, 10, 64): optional sign, one or more
\* decimal digits, range error outside the integer width.
Atoi(s) ==
    LET signed == s # <<>> /\ Head(s) \in {"+", "-"}
        neg    == s # <<>> /\ Head(s) = "-"
        ds     == IF signed THEN Tail(s) ELSE s
    IN  IF ds = <<>> \/ \E i \in 1..Len(ds) : ~IsDigit(ds[i])
        THEN [err |-> "syntax", val |-> 0]
        ELSE LET v == ParseDigits(ds, 0)
             IN  IF neg
                 THEN IF v > IntMax + 1 THEN [err |-> "range", val |-> IntMin]
                      ELSE [err |-> "", val |-> -v]
                 ELSE IF v > IntMax THEN [err |-> "range", val |-> IntMax]
                      ELSE [err |-> "", val |-> v]

RECURSIVE FormatDigits(_)
FormatDigits(n) ==
    IF n < 10 THEN <<Digits[n + 1]>>
    ELSE FormatDigits(n \div 10) \o <<Digits[(n % 10) + 1]>>

\* strconv.Itoa and fmt's %d.
Itoa(n) == IF n < 0 THEN <<"-">> \o FormatDigits(-n) ELSE FormatDigits(n)

\* strings.Split(s, sep) for a one-token separator.
RECURSIVE Split(_, _)
Split(s, sep) ==
    IF \A i \in 1..Len(s) : s[i] # sep THEN <<s>>
    ELSE LET i == CHOOSE k \in 1..Len(s) :
                      s[k] = sep /\ \A j \in 1..(k - 1) : s[j] # sep
         IN  <<SubSeq(s, 1, i - 1)>> \o Split(SubSeq(s, i + 1, Len(s)), sep)

\* strings.Fields: the maximal runs of non-space tokens.
Fields(s) == SelectSeq(Split(s, " "), LAMBDA f : f # <<>>)

\* regexp "/<word>/([^/]*)" searched anywhere in the path: it matches as soon
\* as "/<word>/" occurs, the group may be empty.
RxMatch(word, path) ==
    \E i \in 1..(Len(path) - 2) :
        path[i] = "/" /\ path[i + 1] = word /\ path[i + 2] = "/"

(***************************************************************************)
(* The response writer w and the request r.                                *)
(*   w.hdr   the header map handed out by w.Header()                       *)
(*   w.wrote whether the status line and headers have been sent            *)
(*   w.status, w.sent   the status and the headers that were sent          *)
(*   w.body  the sequence of body writes; a write is [data, rnd]: a text   *)
(*           (token sequence) or rnd pseudo-random bytes                   *)
(***************************************************************************)
NewWriter == [hdr |-> {}, wrote |-> FALSE, status |-> 0, sent |-> {}, body |-> <<>>]

NoRequest == [path |-> <<>>, hdr |-> {}, query |-> {}, body |-> <<>>]

\* Header.Get / url.Values.Get: the value stored under name, "" when absent.
Get(h, name) ==
    IF \E e \in h : e[1] = name THEN (CHOOSE e \in h : e[1] = name)[2] ELSE <<>>

HeaderAdd(wr, name, value) == [wr EXCEPT !.hdr = @ \cup {<<name, value>>}]

HeaderSet(wr, name, value) ==
    [wr EXCEPT !.hdr = {e \in @ : e[1] # name} \cup {<<name, value>>}]

\* w.WriteHeader(code): the first call sends the status and the headers as they
\* stand; a later call changes nothing.
WriteHeader(wr, code) ==
    IF wr.wrote THEN wr
    ELSE [wr EXCEPT !.wrote = TRUE, !.status = code, !.sent = wr.hdr]

\* w.Write(p): sends the headers with status 200 if they are not sent yet.
Write(wr, chunk) ==
    LET c == WriteHeader(wr, 200) IN [c EXCEPT !.body = Append(@, chunk)]

Text(s) == [data |-> s, rnd |-> 0]

Empty == [data |-> <<>>, rnd |-> 0]

Random(n) == [data |-> <<>>, rnd |-> n]

\* fsthttp.Error(w, msg, code): plain-text headers, the status, msg and a newline.
Error(wr, msg, code) ==
    LET h1 == HeaderSet(wr, "Content-Type", <<"text/plain; charset=utf-8">>)
        h2 == HeaderSet(h1, "X-Content-Type-Options", <<"nosniff">>)
    IN  Write(WriteHeader(h2, code), Text(msg \o <<"\n">>))

\* fsthttp.StatusText for the codes the handler names; "" for an unknown code.
StatusText(code) ==
    CASE code = 302 -> <<"Found">>
      [] code = 400 -> <<"Bad Request">>
      [] code = 404 -> <<"Not Found">>
      [] code = 500 -> <<"Internal Server Error">>
      [] OTHER -> <<>>

\* parts := strings.Split(r.URL.Path, "/")
Parts(r) == Split(r.path, "/")

(***************************************************************************)
(* Durations (in milliseconds) and floats (as fractions num/den).          *)
(***************************************************************************)
RECURSIVE DigitRun(_)
DigitRun(s) == IF s # <<>> /\ IsDigit(Head(s)) THEN 1 + DigitRun(Tail(s)) ELSE 0

RECURSIVE UnitRun(_)
UnitRun(s) ==
    IF s # <<>> /\ ~IsDigit(Head(s)) /\ Head(s) # "." THEN 1 + UnitRun(Tail(s)) ELSE 0

RECURSIVE DigitsValue(_, _)
DigitsValue(s, acc) ==
    IF s = <<>> THEN acc ELSE DigitsValue(Tail(s), acc * 10 + DigitVal(Head(s)))

RECURSIVE Pow10(_)
Pow10(k) == IF k = 0 THEN 1 ELSE 10 * Pow10(k - 1)

\* time.ParseDuration's unit table, in milliseconds.
UnitMs(u) ==
    CASE u = <<"m", "s">> -> 1
      [] u = <<"s">> -> 1000
      [] u = <<"m">> -> 60000
      [] u = <<"h">> -> 3600000
      [] OTHER -> 0

\* The group loop of time.ParseDuration: digits, then a unit, repeated.
RECURSIVE DurationGroups(_, _)
DurationGroups(s, acc) ==
    LET n    == DigitRun(s)
        rest == SubSeq(s, n + 1, Len(s))
        u    == UnitRun(rest)
        unit == SubSeq(rest, 1, u)
        next == SubSeq(rest, u + 1, Len(rest))
    IN  IF n = 0 \/ u = 0 \/ UnitMs(unit) = 0 THEN [err |-> "invalid", d |-> 0]
        ELSE LET d == acc + DigitsValue(SubSeq(s, 1, n), 0) * UnitMs(unit)
             IN  IF next = <<>> THEN [err |-> "", d |-> d]
                 ELSE DurationGroups(next, d)

\* time.ParseDuration: [-+]? then "0" or one or more number-unit groups.
TimeParseDuration(s) ==
    LET signed == s # <<>> /\ Head(s) \in {"+", "-"}
        neg    == s # <<>> /\ Head(s) = "-"
        body   == IF signed THEN Tail(s) ELSE s
    IN  IF body = <<"0">> THEN [err |-> "", d |-> 0]
        ELSE IF body = <<>> THEN [err |-> "invalid", d |-> 0]
        ELSE LET g == DurationGroups(body, 0)
             IN  IF g.err # "" THEN g
                 ELSE [err |-> "", d |-> IF neg THEN -g.d ELSE g.d]

\* strconv.ParseFloat on decimal input: [-+]? digits [. digits], at least one
\* digit; the value is (neg ? -1 : 1) * num / den.
ParseFloat(s) ==
    LET signed == s # <<>> /\ Head(s) \in {"+", "-"}
        neg    == s # <<>> /\ Head(s) = "-"
        body   == IF signed THEN Tail(s) ELSE s
        n      == DigitRun(body)
        rest   == SubSeq(body, n + 1, Len(body))
        dotted == rest # <<>> /\ Head(rest) = "."
        frac   == IF dotted THEN Tail(rest) ELSE rest
        k      == DigitRun(frac)
    IN  IF k # Len(frac) \/ n + k = 0
        THEN [err |-> "syntax", neg |-> FALSE, num |-> 0, den |-> 1]
        ELSE [err |-> "", neg |-> neg,
              num |-> DigitsValue(SubSeq(body, 1, n) \o frac, 0), den |-> Pow10(k)]

parseDuration(input) ==
    LET t == TimeParseDuration(input)
    IN  IF t.err = "" THEN t
        ELSE LET n == ParseFloat(input)
             IN  IF n.err # "" THEN [err |-> n.err, d |-> 0]
                 ELSE LET ms == (n.num * 1000) \div n.den
                      IN  [err |-> "", d |-> IF n.neg THEN -ms ELSE ms]

parseBoundedDuration(input, min, max) ==
    LET p == parseDuration(input)
    IN  IF p.err # "" THEN [err |-> p.err, d |-> 0]
        ELSE IF p.d > max THEN [err |-> "longer", d |-> p.d]
        ELSE IF p.d < min THEN [err |-> "shorter", d |-> p.d]
        ELSE p

\* time.Minute, in milliseconds.
Minute == 60 * 1000

(***************************************************************************)
(* The routes of the handler, each as the response it writes.              *)
(***************************************************************************)
Uncacheable(wr) ==
    HeaderAdd(HeaderAdd(wr, "Surrogate-Control", <<"max-age=31557600">>),
              "Cache-Control", <<"no-store, max-age=0">>)

\* The candidates rand.Intn(len(codes)) chooses among (1-based); 0 when the
\* route returns before drawing.
StatusDraws(r) ==
    IF Len(Parts(r)) # 3 THEN {0} ELSE 1..Len(Split(Parts(r)[3], ","))

StatusRoute(r, wr, idx) ==
    IF Len(Parts(r)) # 3 THEN Error(wr, <<"Not found">>, 404)
    ELSE LET codes == Split(Parts(r)[3], ",")
             h     == IF Len(codes) > 1 THEN Uncacheable(wr) ELSE wr
             a     == Atoi(codes[idx])
         IN  IF a.err # "" THEN Error(h, <<"Invalid status">>, 400)
             ELSE IF a.val >= 300 THEN Error(h, StatusText(a.val), a.val)
             ELSE LET e == IF a.val > 999 THEN Error(h, StatusText(400), 400) ELSE h
                  IN  WriteHeader(e, a.val)

\* The delay route up to its select: the response of an early return, or the
\* accepted duration to wait for.
DelayRoute(r, wr) ==
    IF Len(Parts(r)) # 3
    THEN [wait |-> FALSE, d |-> 0, w |-> Error(wr, <<"Not found">>, 404)]
    ELSE LET p == parseBoundedDuration(Parts(r)[3], 0, Minute)
         IN  IF p.err # ""
             THEN [wait |-> FALSE, d |-> 0, w |-> Error(wr, <<"Invalid duration">>, 400)]
             ELSE [wait |-> TRUE, d |-> p.d, w |-> wr]

\* The byte cap of handleBytes.
MaxBytes == 100 * 1024

\* A faulty writer: the length is set once the body is on its way.
BytesWriterLate(wr, n) == HeaderSet(Write(wr, Random(n)), "Content-Length", Itoa(n))

\* writer := func(chunk []byte) {...}
BytesWriter(wr, n) == Write(HeaderSet(wr, "Content-Length", Itoa(n)), Random(n))

\* One iteration of handleBytes' loop; st.chunk is len(chunk).
BytesStep(st, numBytes) ==
    LET c == st.chunk + 1
    IN  IF c = numBytes THEN [chunk |-> 0, w |-> BytesWriter(st.w, c)]
        ELSE [chunk |-> c, w |-> st.w]

\* Iterations lo..hi of the loop, in order: those up to mid are evaluated
\* (the test on half.chunk) before those after it.
RECURSIVE BytesLoop(_, _, _, _)
BytesLoop(st, lo, hi, numBytes) ==
    IF lo > hi THEN st
    ELSE IF lo = hi THEN BytesStep(st, numBytes)
    ELSE LET mid  == (lo + hi) \div 2
             half == BytesLoop(st, lo, mid, numBytes)
         IN  IF half.chunk >= 0 THEN BytesLoop(half, mid + 1, hi, numBytes) ELSE half

handleBytes(r, wr) ==
    IF Len(Parts(r)) # 3 THEN Error(wr, <<"Not found">>, 404)
    ELSE LET a == Atoi(Parts(r)[3])
         IN  IF a.err # "" THEN Error(wr, <<"strconv.Atoi: ", a.err>>, 400)
             ELSE IF a.val < 0 THEN Error(wr, <<"Bad Request">>, 400)
             ELSE IF a.val = 0
                  THEN WriteHeader(HeaderSet(wr, "Content-Length", <<"0">>), 200)
             ELSE LET numBytes == IF a.val > MaxBytes THEN MaxBytes ELSE a.val
                      h  == HeaderSet(wr, "Content-Type", <<"application/octet-stream">>)
                      st == BytesLoop([chunk |-> 0, w |-> h], 0, numBytes - 1, numBytes)
                  IN  IF st.chunk > 0 THEN BytesWriter(st.w, st.chunk) ELSE st.w

\* sha1hash: h.Sum(b) appends the digest of what was written to h (nothing)
\* to b, and %x prints the whole in hex.
sha1hash(input) ==
    <<"hex">> \o input \o <<"da39a3ee5e6b4b0d3255bfef95601890afd80709">>

\* time.Now().Format(time.RFC1123)
Now == <<"now">>

\* The exact /cache route: ret tells whether the handler returns.
CacheRoute(r, wr) ==
    IF Get(r.hdr, "If-Modified-Since") # <<>> \/ Get(r.hdr, "If-None-Match") # <<>>
    THEN [ret |-> TRUE, w |-> WriteHeader(wr, 304)]
    ELSE LET h1 == HeaderAdd(wr, "Last-Modified", Now)
             h2 == HeaderAdd(h1, "ETag", sha1hash(Now))
         IN  [ret |-> FALSE, w |-> Write(h2, Empty)]

\* A faulty route: a path with segments after the parameter is let through.
CacheParamRouteLax(r, wr) ==
    IF Len(Parts(r)) < 3 THEN Error(wr, <<"Not found">>, 404)
    ELSE LET a == Atoi(Parts(r)[3])
         IN  IF a.err # "" THEN Error(wr, <<"strconv.ParseInt: ", a.err>>, 400)
             ELSE Write(HeaderAdd(wr, "Cache-Control",
                                  <<"public, max-age=">> \o Itoa(a.val)), Empty)

CacheParamRoute(r, wr) ==
    IF Len(Parts(r)) # 3 THEN Error(wr, <<"Not found">>, 404)
    ELSE LET a == Atoi(Parts(r)[3])
         IN  IF a.err # "" THEN Error(wr, <<"strconv.ParseInt: ", a.err>>, 400)
             ELSE Write(HeaderAdd(wr, "Cache-Control",
                                  <<"public, max-age=">> \o Itoa(a.val)), Empty)

\* io.Copy writes what it reads; an empty body is never written.
AnythingRoute(r, wr) ==
    LET h == [wr EXCEPT !.hdr = {e \in @ : \A f \in r.hdr : f[1] # e[1]} \cup r.hdr]
    IN  IF r.body = <<>> THEN h ELSE Write(h, Text(r.body))

UserAgentRoute(r, wr) ==
    Write(HeaderSet(wr, "Content-Type", <<"text/json; charset=utf-8">>),
          Text(<<"{user-agent:">> \o Get(r.hdr, "User-Agent") \o <<"}">>))

RemoteAddr == <<"192.0.2.1">>

IPRoute(r, wr) ==
    Write(HeaderSet(wr, "Content-Type", <<"text/json; charset=utf-8">>),
          Text(<<"{origin:">> \o RemoteAddr \o <<"}">>))

BearerRoute(r, wr) ==
    LET tokenFields == Fields(Get(r.hdr, "Authorization"))
    IN  IF Len(tokenFields) # 2 \/ tokenFields[1] # <<"Bearer">>
        THEN WriteHeader(HeaderSet(wr, "WWW-Authenticate", <<"Bearer">>), 401)
        ELSE Write(wr, Text(<<"{authenticated: true, token:">>
                            \o tokenFields[2] \o <<"}">>))

\* The most redirects a chain may ask for.
MaxRedirects == 20

\* A faulty route: the twentieth redirect is refused already.
RedirectRouteEager(r, wr) ==
    IF Len(Parts(r)) # 3 THEN Error(wr, <<"Not found">>, 404)
    ELSE LET a == Atoi(Parts(r)[3])
         IN  IF a.err # "" THEN Error(wr, <<"Invalid redirects">>, 400)
             ELSE IF a.val = 0 THEN Write(wr, Text(<<"completed redirects">>))
             ELSE IF a.val >= MaxRedirects
                  THEN Error(wr, <<"maximum of 20 redirects allowed">>, 400)
             ELSE Error(HeaderSet(wr, "Location",
                                  <<"/", "redirect", "/">> \o Itoa(WrapInt(a.val - 1))),
                        StatusText(302), 302)

RedirectRoute(r, wr) ==
    IF Len(Parts(r)) # 3 THEN Error(wr, <<"Not found">>, 404)
    ELSE LET a == Atoi(Parts(r)[3])
         IN  IF a.err # "" THEN Error(wr, <<"Invalid redirects">>, 400)
             ELSE IF a.val = 0 THEN Write(wr, Text(<<"completed redirects">>))
             ELSE IF a.val > MaxRedirects
                  THEN Error(wr, <<"maximum of 20 redirects allowed">>, 400)
             ELSE Error(HeaderSet(wr, "Location",
                                  <<"/", "redirect", "/">> \o Itoa(WrapInt(a.val - 1))),
                        StatusText(302), 302)

\* The unstable route; rand.Float64() drew draw/DrawSteps.
UnstableRoute(r, wr, draw) ==
    LET p    == ParseFloat(Get(r.query, "failure-rate"))
        h    == Uncacheable(wr)
        \* pRate < 1 && pRate > 0
        inside == p.err = "" /\ ~p.neg /\ p.num < p.den /\ p.num > 0
        num  == IF inside THEN p.num ELSE 1
        den  == IF inside THEN p.den ELSE 2
    IN  IF draw * den > num * DrawSteps THEN Write(h, Empty)
        ELSE Error(h, StatusText(500), 500)

\* The bytes of an embedded asset that exists.
Asset == Text(<<"asset">>)

IndexRoute(wr, ok) ==
    LET h == HeaderSet(wr, "Content-Type", <<"text/html; charset=utf-8">>)
        e == IF ok THEN h ELSE Error(h, StatusText(500), 500)
    IN  Write(e, IF ok THEN Asset ELSE Empty)

StaticRoute(wr, found) ==
    IF found THEN Write(wr, Asset) ELSE Error(wr, StatusText(404), 404)

(***************************************************************************)
(* The requests the model serves.                                          *)
(***************************************************************************)
ParamChars == {"-", "+", "0", "1", "2", ",", "x", "s"}

RECURSIVE Strings(_)
Strings(n) ==
    IF n = 0 THEN {<<>>}
    ELSE Strings(n - 1) \cup
         {Append(t, c) : t \in {u \in Strings(n - 1) : Len(u) = n - 1}, c \in ParamChars}

\* Longer parameters that reach the thresholds of the routes.
LongParams ==
    { <<"3", "0", "0">>, <<"4", "0", "4">>, <<"9", "9", "9">>, <<"1", "0", "0", "0">>,
      <<"2", "0", "0", ",", "4", "0", "4">>, <<"2", "0", "0", ",", "x">>,
      <<"1", "0", "0", "0", ",", "x">>,
      <<"6", "0">>, <<"6", "1">>, <<"6", "0", "s">>, <<"6", "1", "s">>,
      Itoa(MaxBytes - 1), Itoa(MaxBytes), Itoa(MaxBytes + 1),
      Itoa(IntMax), Itoa(IntMax + 1), Itoa(IntMin), Itoa(IntMin + 1), Itoa(IntMin - 1) }

Params == Strings(MaxParamLen) \cup LongParams

ParamRoutes == {"status", "delay", "bytes", "cache", "redirect"}

\* Paths around a parameterized route: without the parameter segment, with a
\* segment too many, and with segments before the prefix.
Misrouted ==
    UNION { { <<"/", rt>>,
              <<"/", rt, "/">> \o p \o <<"/">>,
              <<"/", rt, "/">> \o p \o <<"/", "1">>,
              <<"/", "x", "/", rt, "/">> \o p,
              <<"/", "/", rt, "/">> \o p,
              <<"/", "cache", "/", rt, "/">> \o p }
            : rt \in ParamRoutes, p \in {<<>>, <<"1">>} }

Paths ==
    { <<"/", rt, "/">> \o p : rt \in ParamRoutes, p \in Params }
        \cup Misrouted
        \cup { <<"/">>, <<"/", "file">>, <<"/", "anything">>, <<"/", "user-agent">>,
               <<"/", "ip">>, <<"/", "bearer">>, <<"/", "unstable">> }

Plain(path) == [path |-> path, hdr |-> {}, query |-> {}, body |-> <<>>]

Stamp == <<"Mon, 02 Jan 2006 15:04:05 MST">>

HeaderSets ==
    { {<<"If-Modified-Since", Stamp>>},
      {<<"If-None-Match", sha1hash(Stamp)>>},
      {<<"If-Modified-Since", Stamp>>, <<"If-None-Match", sha1hash(Stamp)>>},
      {<<"User-Agent", <<"curl">>>>},
      {<<"Authorization", <<"Bearer", " ", "abc123">>>>},
      {<<"Authorization", <<"Bearer">>>>},
      {<<"Authorization", <<"Basic", " ", "abc123">>>>},
      {<<"Authorization", <<"Bearer", " ", "abc", " ", "123">>>>} }

Rates ==
    { <<"0">>, <<"1">>, <<"0", ".", "3">>, <<"0", ".", "7", "5">>, <<"1", ".", "5">>,
      <<"-", "0", ".", "5">>, <<"x">> }

Requests ==
    { Plain(p) : p \in Paths }
        \cup { [Plain(p) EXCEPT !.hdr = h] :
                   p \in { <<"/", "cache">>, <<"/", "cache", "/", "1">>, <<"/", "bearer">>,
                           <<"/", "user-agent">>, <<"/", "anything">> },
                   h \in HeaderSets }
        \cup { [Plain(<<"/", "unstable">>) EXCEPT !.query = {<<"failure-rate", q>>}] :
                   q \in Rates }
        \cup { [Plain(<<"/", "anything">>) EXCEPT !.body = <<"payload">>] }

(***************************************************************************)
(* The handler, route by route in the order of the code.                   *)
(***************************************************************************)
Init ==
    /\ req = NoRequest
    /\ pc = "idle"
    /\ w = NewWriter
    /\ ran = <<>>
    /\ picked = -1
    /\ cancelled = FALSE
    /\ timer = "none"
    /\ first = "none"
    /\ chain = FALSE

\* fsthttp.ServeFunc calls the handler with a fresh response writer.
Serve(r, followed) ==
    /\ req' = r
    /\ pc' = "status"
    /\ w' = NewWriter
    /\ ran' = <<>>
    /\ picked' = -1
    /\ cancelled' = FALSE
    /\ timer' = "none"
    /\ first' = "none"
    /\ chain' = followed

Receive(r) ==
    /\ pc = "idle"
    /\ Serve(r, FALSE)

\* The handler has returned and the response is complete: nothing of the
\* request outlives it.
Close ==
    /\ pc = "done"
    /\ req' = NoRequest
    /\ pc' = "idle"
    /\ w' = NewWriter
    /\ ran' = <<>>
    /\ picked' = -1
    /\ cancelled' = FALSE
    /\ timer' = "none"
    /\ first' = "none"
    /\ chain' = FALSE

\* The block of a route writes wr and returns.
Return(name, wr) ==
    /\ w' = wr
    /\ ran' = Append(ran, name)
    /\ pc' = "done"

\* The route does not match: on to the next one.
Skip(next) ==
    /\ pc' = next
    /\ UNCHANGED <<w, ran>>

RouteStatus ==
    /\ pc = "status"
    /\ IF RxMatch("status", req.path)
       THEN \E idx \in StatusDraws(req) :
                /\ Return("status", StatusRoute(req, w, idx))
                /\ picked' = idx
       ELSE Skip("delay") /\ UNCHANGED picked
    /\ UNCHANGED <<req, cancelled, timer, first, chain>>

RouteDelay ==
    /\ pc = "delay"
    /\ IF RxMatch("delay", req.path)
       THEN LET dr == DelayRoute(req, w)
            IN  IF dr.wait
                THEN /\ pc' = "select"
                     /\ timer' = "running"
                     /\ ran' = Append(ran, "delay")
                     /\ w' = w
                ELSE Return("delay", dr.w) /\ UNCHANGED timer
       ELSE Skip("bytes") /\ UNCHANGED timer
    /\ UNCHANGED <<req, picked, cancelled, first, chain>>

\* The client goes away: ctx.Done() is closed.  A handler blocked in the
\* select is woken with that case.
Cancel ==
    /\ pc \notin {"idle", "done"}
    /\ ~cancelled
    /\ cancelled' = TRUE
    /\ first' = IF first = "none" THEN "cancel" ELSE first
    /\ pc' = IF pc = "blocked" THEN "caseDone" ELSE pc
    /\ UNCHANGED <<req, w, ran, picked, timer, chain>>

\* The timer of time.After expires.  A handler blocked in the select is woken
\* with that case.
TimerFire ==
    /\ timer = "running"
    /\ pc \in {"select", "blocked"}
    /\ timer' = "fired"
    /\ first' = IF first = "none" THEN "timer" ELSE first
    /\ pc' = IF pc = "blocked" THEN "caseTimer" ELSE pc
    /\ UNCHANGED <<req, w, ran, picked, cancelled, chain>>

\* The select statement looks at its channels: one of the ready cases is
\* chosen, and with none ready the handler blocks.
Select ==
    /\ pc = "select"
    /\ LET ready == {c \in {"caseDone"} : cancelled}
                        \cup {c \in {"caseTimer"} : timer = "fired"}
       IN  IF ready = {} THEN pc' = "blocked" ELSE pc' \in ready
    /\ UNCHANGED <<req, w, ran, picked, cancelled, timer, first, chain>>

DelayCancelled ==
    /\ pc = "caseDone"
    /\ w' = WriteHeader(w, 499)
    /\ pc' = "done"
    /\ UNCHANGED <<req, ran, picked, cancelled, timer, first, chain>>

DelayElapsed ==
    /\ pc = "caseTimer"
    /\ w' = Write(w, Text(<<"delayed ok">>))
    /\ pc' = "done"
    /\ UNCHANGED <<req, ran, picked, cancelled, timer, first, chain>>

RouteBytes ==
    /\ pc = "bytes"
    /\ IF RxMatch("bytes", req.path)
       THEN Return("bytes", handleBytes(req, w))
       ELSE Skip("cache")
    /\ UNCHANGED <<req, picked, cancelled, timer, first, chain>>

\* The exact /cache block ends without a return when it answers 200.
RouteCache ==
    /\ pc = "cache"
    /\ IF req.path = <<"/", "cache">>
       THEN LET c == CacheRoute(req, w)
            IN  /\ w' = c.w
                /\ ran' = Append(ran, "cache")
                /\ pc' = IF c.ret THEN "done" ELSE "cacheParam"
       ELSE Skip("cacheParam")
    /\ UNCHANGED <<req, picked, cancelled, timer, first, chain>>

RouteCacheParam ==
    /\ pc = "cacheParam"
    /\ IF RxMatch("cache", req.path)
       THEN Return("cacheParam", CacheParamRoute(req, w))
       ELSE Skip("anything")
    /\ UNCHANGED <<req, picked, cancelled, timer, first, chain>>

RouteAnything ==
    /\ pc = "anything"
    /\ IF req.path = <<"/", "anything">>
       THEN Return("anything", AnythingRoute(req, w))
       ELSE Skip("userAgent")
    /\ UNCHANGED <<req, picked, cancelled, timer, first, chain>>

RouteUserAgent ==
    /\ pc = "userAgent"
    /\ IF req.path = <<"/", "user-agent">>
       THEN Return("userAgent", UserAgentRoute(req, w))
       ELSE Skip("ip")
    /\ UNCHANGED <<req, picked, cancelled, timer, first, chain>>

RouteIP ==
    /\ pc = "ip"
    /\ IF req.path = <<"/", "ip">>
       THEN Return("ip", IPRoute(req, w))
       ELSE Skip("bearer")
    /\ UNCHANGED <<req, picked, cancelled, timer, first, chain>>

RouteBearer ==
    /\ pc = "bearer"
    /\ IF req.path = <<"/", "bearer">>
       THEN Return("bearer", BearerRoute(req, w))
       ELSE Skip("redirect")
    /\ UNCHANGED <<req, picked, cancelled, timer, first, chain>>

RouteRedirect ==
    /\ pc = "redirect"
    /\ IF RxMatch("redirect", req.path)
       THEN Return("redirect", RedirectRoute(req, w))
       ELSE Skip("unstable")
    /\ UNCHANGED <<req, picked, cancelled, timer, first, chain>>

RouteUnstable ==
    /\ pc = "unstable"
    /\ IF req.path = <<"/", "unstable">>
       THEN \E draw \in 0..(DrawSteps - 1) :
                /\ Return("unstable", UnstableRoute(req, w, draw))
                /\ picked' = draw
       ELSE Skip("index") /\ UNCHANGED picked
    /\ UNCHANGED <<req, cancelled, timer, first, chain>>

\* staticAssets.ReadFile succeeds or fails: the embedded files are not part
\* of the handler.
RouteIndex ==
    /\ pc = "index"
    /\ IF req.path = <<"/">>
       THEN \E ok \in BOOLEAN : Return("index", IndexRoute(w, ok))
       ELSE Skip("static")
    /\ UNCHANGED <<req, picked, cancelled, timer, first, chain>>

\* The asset lookup and the catch-all 404.
RouteStatic ==
    /\ pc = "static"
    /\ \E found \in BOOLEAN :
           Return(IF found THEN "static" ELSE "notFound", StaticRoute(w, found))
    /\ UNCHANGED <<req, picked, cancelled, timer, first, chain>>

\* A client that follows redirects asks for the Location of a 302.
Follow ==
    /\ pc = "done"
    /\ w.status = 302
    /\ Get(w.sent, "Location") # <<>>
    /\ Serve([req EXCEPT !.path = Get(w.sent, "Location")], TRUE)

Handler ==
    \/ RouteStatus \/ RouteDelay \/ Cancel \/ TimerFire \/ Select
    \/ DelayCancelled \/ DelayElapsed \/ RouteBytes \/ RouteCache
    \/ RouteCacheParam \/ RouteAnything \/ RouteUserAgent \/ RouteIP
    \/ RouteBearer \/ RouteRedirect \/ RouteUnstable \/ RouteIndex \/ RouteStatic

Next == (\E r \in Requests : Receive(r)) \/ Handler \/ Close

Spec == Init /\ [][Next]_vars

\* A chain that starts at a negative n visits every integer down to the
\* smallest one: the client starts such a chain at the last two only.
ClientRequests ==
    { r \in Requests :
          Len(Parts(r)) = 3 /\ Parts(r)[2] = <<"redirect">> /\ Atoi(Parts(r)[3]).err = ""
              => Atoi(Parts(r)[3]).val \in {IntMin, IntMin + 1} \cup (0..IntMax) }

\* The same server, with a client that follows the redirects it is given.
NextClient == (\E r \in ClientRequests : Receive(r)) \/ Handler \/ Close \/ Follow

SpecClient == Init /\ [][NextClient]_vars

(***************************************************************************)
(* Properties.                                                             *)
(***************************************************************************)
Done == pc = "done"

\* The parameter segment of a path "/<route>/<segment>".
Param == Parts(req)[3]

OnRoute(rt) == Done /\ Len(Parts(req)) = 3 /\ ran = <<rt>>

\* A decimal integer as written: an optional sign and one or more digits.
IsInteger(s) ==
    LET ds == IF s # <<>> /\ Head(s) \in {"+", "-"} THEN Tail(s) ELSE s
    IN  ds # <<>> /\ \A i \in 1..Len(ds) : IsDigit(ds[i])

\* The number a decimal integer denotes, whatever its size.
Denotes(s) ==
    IF Head(s) = "-" THEN -DigitsValue(Tail(s), 0)
    ELSE IF Head(s) = "+" THEN DigitsValue(Tail(s), 0)
    ELSE DigitsValue(s, 0)

\* No write of the body carried a byte.
BodyEmpty(wr) == \A i \in 1..Len(wr.body) : wr.body[i] = Empty

\* The pseudo-random bytes written to the body.
BodyLen(wr) ==
    LET RECURSIVE Sum(_)
        Sum(i) == IF i = 0 THEN 0 ELSE Sum(i - 1) + wr.body[i].rnd
    IN  Sum(Len(wr.body))

Says(wr, code, msg) == wr.status = code /\ wr.body = <<Text(msg \o <<"\n">>)>>

\* C1: a client that follows the redirects of /redirect/n ends its chain with
\* 200 "completed redirects": a chain that has ended did not end otherwise
\* (in particular not in a 400).
C1_ChainCompletes ==
    chain /\ Done /\ w.status # 302
        => w.status = 200 /\ w.body = <<Text(<<"completed redirects">>)>>

\* C2: exactly one handler executes per request: when the response is complete
\* the block of exactly one route has run.
C2_OneHandler == Done => Len(ran) = 1

\* C3: on /delay/{d} with an accepted duration the signal that fires first
\* decides the response: cancellation first gives 499 without a body, the
\* timer first gives 200 "delayed ok".
C3_FirstSignalWins ==
    Done /\ ran = <<"delay">> /\ timer # "none"
        => /\ first = "cancel" => w.status = 499 /\ w.body = <<>>
           /\ first = "timer" => w.status = 200 /\ w.body = <<Text(<<"delayed ok">>)>>

\* C4: /cache without a conditional header is answered 200 with Last-Modified
\* and ETag and an empty body; with If-Modified-Since or If-None-Match it is
\* answered 304 with an empty body.
C4_CacheExact ==
    Done /\ req.path = <<"/", "cache">>
        => IF Get(req.hdr, "If-Modified-Since") = <<>> /\ Get(req.hdr, "If-None-Match") = <<>>
           THEN /\ w.status = 200
                /\ Get(w.sent, "Last-Modified") # <<>>
                /\ Get(w.sent, "ETag") # <<>>
                /\ BodyEmpty(w)
           ELSE w.status = 304 /\ BodyEmpty(w)

\* C5: on /status/{codes} a chosen code above 999 is answered with status 400.
C5_InvalidCodeIs400 ==
    OnRoute("status") /\ picked >= 1
        => LET a == Atoi(Split(Param, ",")[picked])
           IN  a.err = "" /\ a.val > 999 => w.status = 400

\* C7: /unstable?failure-rate=1 is always answered 500 and
\* /unstable?failure-rate=0 always 200, whatever the random draw.
C7_DegenerateRates ==
    Done /\ req.path = <<"/", "unstable">>
        => /\ Get(req.query, "failure-rate") = <<"1">> => w.status = 500
           /\ Get(req.query, "failure-rate") = <<"0">> => w.status = 200

\* C9: on /status/{codes} a list with a candidate that is no integer is
\* answered 400 "Invalid status", whichever candidate is picked.
C9_AnyInvalidCandidate ==
    OnRoute("status") /\ (\E i \in 1..Len(Split(Param, ",")) :
                              ~IsInteger(Split(Param, ",")[i]))
        => Says(w, 400, <<"Invalid status">>)

LocationOf(n) == <<"/", "redirect", "/">> \o Itoa(n)

\* What the redirect route owes a request for /redirect/n with n >= 0 that
\* Go's int holds.
RedirectAnswer(n) ==
    IF n = 0 THEN w.status = 200 /\ w.body = <<Text(<<"completed redirects">>)>>
    ELSE IF n <= 20 THEN w.status = 302 /\ Get(w.sent, "Location") = LocationOf(n - 1)
    ELSE Says(w, 400, <<"maximum of 20 redirects allowed">>)

\* C6 as stated: for every integer n, /redirect/n answers 200 "completed
\* redirects" for n = 0, 302 to /redirect/(n-1) for 1 <= n <= 20 and
\* 400 "maximum of 20 redirects allowed" for n > 20; a segment that is no
\* integer is answered 400 "Invalid redirects".
C6_RedirectTable ==
    OnRoute("redirect")
        => IF IsInteger(Param)
           THEN Denotes(Param) >= 0 => RedirectAnswer(Denotes(Param))
           ELSE Says(w, 400, <<"Invalid redirects">>)

\* C6, amended: the table holds for every n that Go's int holds; an integer above
\* that range is answered, like a segment that is no integer, with
\* 400 "Invalid redirects".
C6_RedirectTableInRange ==
    OnRoute("redirect")
        => IF IsInteger(Param) /\ Denotes(Param) <= IntMax
           THEN Denotes(Param) >= 0 => RedirectAnswer(Denotes(Param))
           ELSE Says(w, 400, <<"Invalid redirects">>)

C6_Witness ==
    /\ OnRoute("redirect")
    /\ Param = <<"2", "0">>
    /\ w.status = 302
    /\ Get(w.sent, "Location") = <<"/", "redirect", "/", "1", "9">>

\* What handleBytes owes a request for /bytes/n with n >= 0 that Go's int holds.
BytesAnswer(n) ==
    LET m == IF n > MaxBytes THEN MaxBytes ELSE n
    IN  /\ w.status = 200
        /\ Get(w.sent, "Content-Length") = Itoa(m)
        /\ w.body = IF m = 0 THEN <<>> ELSE <<Random(m)>>

\* C8 as stated: for every integer n >= 0, /bytes/n answers 200 with one body
\* write of min(n, 102400) bytes and that length as Content-Length, sent
\* before the body; n = 0 gives no body and Content-Length 0; a negative n is
\* answered 400 and no byte is generated.
C8_BytesLength ==
    OnRoute("bytes") /\ IsInteger(Param)
        => IF Denotes(Param) >= 0 THEN BytesAnswer(Denotes(Param))
           ELSE w.status = 400 /\ BodyLen(w) = 0

\* C8, amended: the same for every n that Go's int holds; an integer above that
\* range is answered 400 and no byte is generated.
C8_BytesLengthInRange ==
    OnRoute("bytes") /\ IsInteger(Param)
        => IF Denotes(Param) >= 0 /\ Denotes(Param) <= IntMax
           THEN BytesAnswer(Denotes(Param))
           ELSE w.status = 400 /\ BodyLen(w) = 0

C8_Witness ==
    /\ OnRoute("bytes")
    /\ IsInteger(Param)
    /\ Denotes(Param) = MaxBytes + 1
    /\ w.body = <<Random(MaxBytes)>>
    /\ Get(w.sent, "Content-Length") = Itoa(MaxBytes)

\* The path reached the block of a parameterized route.
Prefixed == \E rt \in ParamRoutes : RxMatch(rt, req.path)

\* The routing-level rejection.
Rejected == Says(w, 404, <<"Not found">>)

\* C10 as stated: the validation of a parameterized route runs only for the
\* prefix followed by exactly one non-empty parameter segment; every other path
\* with the prefix (more segments, segments before the prefix, an empty
\* parameter segment) is rejected with 404 "Not found", never with 400.
C10_SegmentsNonEmpty ==
    Done /\ Prefixed
        => IF Len(Parts(req)) = 3 /\ Param # <<>> THEN ~Rejected ELSE Rejected

\* C10, amended: the validation runs exactly for the prefix followed by one
\* parameter segment, empty or not; an empty segment fails that validation with
\* 400, and every other path with the prefix is rejected with 404 "Not found".
C10_SegmentCount ==
    Done /\ Prefixed
        => IF Len(Parts(req)) = 3
           THEN ~Rejected /\ (Param = <<>> => w.status = 400)
           ELSE Rejected

C10_Witness ==
    /\ Done
    /\ req.path = <<"/", "status", "/">>
    /\ Says(w, 400, <<"Invalid status">>)

====
